---- MODULE Spec2Model ----
(***************************************************************************)
(* Employee leave management (src/main.py): the module-level dictionary    *)
(* `employees`, the four tool handlers register_employee, apply_leave,     *)
(* get_leave_balance and get_leave_history, and the helpers daterange and  *)
(* dates_overlap.                                                          *)
(*                                                                         *)
(* Spec     : the handlers run one at a time, each as one step.            *)
(* SpecView : as Spec, and the caller keeps the list get_leave_history     *)
(*            returned and may change it.                                  *)
(* SpecConc : the handlers run on several threads and interleave between   *)
(*            the statements that read or write the shared dictionary.     *)
(***************************************************************************)
EXTENDS Integers, Sequences, FiniteSets, TLC

(***************************************************************************)
(* Inputs of the handlers.                                                 *)
(***************************************************************************)
Names == {"alice", "bob"}

\* The keys of the balances dictionary built by register_employee.
Categories == {"casual", "floater", "sick"}

\* leave_type arguments: the three categories and one unknown type.
LeaveTypes == Categories \cup {"annual"}

Reasons == {"trip"}

\* start / end arguments: two plain ISO dates, an ISO date with a time of day,
\* and a string that is no ISO date.
DateStrings == {"2024-01-01", "2024-01-02", "2024-01-01T12:00", "01/02/2024"}

\* Largest number of approved records, over all histories, in the model.
MaxRecords == 2

\* SpecConc: the threads the transport runs handlers on and the number of calls
\* each of them makes.  SpecConc and SpecView: the arguments of the calls.
Threads == {"t1", "t2"}

MaxCalls == 2

ConcNames == {"alice"}

ConcLeaveTypes == {"floater"}

ConcDateStrings == {"2024-01-01", "2024-01-02"}

(***************************************************************************)
(* datetime                                                                *)
(***************************************************************************)
ValueError == [error |-> "ValueError"]

\* datetime.fromisoformat on the strings of DateStrings: a datetime value
\* (day of January 2024 and hour of that day), or ValueError.
fromisoformat(s) ==
    CASE s = "2024-01-01"       -> [day |-> 1, hour |-> 0]
      [] s = "2024-01-02"       -> [day |-> 2, hour |-> 0]
      [] s = "2024-01-01T12:00" -> [day |-> 1, hour |-> 12]
      [] OTHER                  -> ValueError

\* Hours since the start of 2024-01-01.
Hours(d) == (d.day - 1) * 24 + d.hour

\* (end_date - start_date).days : timedelta.days is the floor of the difference.
DeltaDays(end_date, start_date) == (Hours(end_date) - Hours(start_date)) \div 24

\* start_date + timedelta(n)
PlusDays(d, n) == [d EXCEPT !.day = d.day + n]

daterange(start_date, end_date) ==
    { PlusDays(start_date, n) : n \in 0 .. (DeltaDays(end_date, start_date) + 1) - 1 }

dates_overlap(existing_dates, new_dates) ==
    existing_dates \cap new_dates # {}

\* The taken_dates loop of apply_leave over emp["history"].
RECURSIVE taken_dates(_)
taken_dates(history) ==
    IF history = <<>> THEN {}
    ELSE LET record == Head(history)
             rec_start == fromisoformat(record.start)
             rec_end == fromisoformat(record.end)
         IN daterange(rec_start, rec_end) \cup taken_dates(Tail(history))

(***************************************************************************)
(* State                                                                   *)
(***************************************************************************)
VARIABLES
    employees,  \* the dict: name -> index into heap[name] of its ledger, 0 = no key
    heap,       \* name -> the ledger objects register_employee created for it
    last,       \* Spec: the handler that returned last and its outcome
    th,         \* SpecConc: per thread, the position in its handler and its locals
    held        \* SpecView: the list object the caller got from get_leave_history

vars == <<employees, heap, last, th, held>>

Registered(name) == employees[name] # 0

\* employees[name], for a registered name
Ledger(name) == heap[name][employees[name]]

DefaultBalances == [c \in Categories |->
    CASE c = "casual" -> 8 [] c = "floater" -> 2 [] c = "sick" -> 30]

NewLedger == [balances |-> DefaultBalances, history |-> <<>>]

NoArgs == [employee |-> "", leave_type |-> "", start |-> "", end |-> ""]

NoReturn == [op |-> "none", employee |-> "", outcome |-> "none", seen |-> <<>>]

\* A thread between two calls: pc is the line of the handler it is at, emp the
\* ledger object its local emp refers to, bal its operand of the -= of line 65,
\* ret what its last call returned.
IdleThread ==
    [pc |-> "idle", calls |-> 0, args |-> NoArgs, emp |-> 0, bal |-> 0, ret |-> NoReturn]

Init ==
    /\ employees = [n \in Names |-> 0]
    /\ heap = [n \in Names |-> <<>>]
    /\ last = [op |-> "none", outcome |-> "none"]
    /\ th = [t \in Threads |-> IdleThread]
    /\ held = <<>>

Return(op, outcome) ==
    last' = [op |-> op, outcome |-> outcome]

\* The number of records in all histories of the dictionary.
RECURSIVE SumLen(_, _)
SumLen(f, S) ==
    IF S = {} THEN 0
    ELSE LET n == CHOOSE x \in S : TRUE
         IN Len(f[n]) + SumLen(f, S \ {n})

TotalRecords ==
    SumLen([n \in Names |-> IF Registered(n) THEN Ledger(n).history ELSE <<>>], Names)

(***************************************************************************)
(* apply_leave, lines 27-78                                                *)
(***************************************************************************)
IsValueError(d) == "error" \in DOMAIN d

\* Mutant of NumDays: the inclusive end day is not counted.
NumDays_exclusive(start_date, end_date) == DeltaDays(end_date, start_date)

\* num_days = (end_date - start_date).days + 1
NumDays(start_date, end_date) == DeltaDays(end_date, start_date) + 1

\* Mutant of leave_record: the record's day count leaves out the end day.
leave_record_short(leave_type, start, end, num_days, reason) ==
    [type |-> leave_type, start |-> start, end |-> end,
     days |-> num_days - 1, reason |-> reason]

\* The dictionary appended to the history.  applied_at, the wall clock at the
\* commit, is read by no handler and is left out.
leave_record(leave_type, start, end, num_days, reason) ==
    [type |-> leave_type, start |-> start, end |-> end,
     days |-> num_days, reason |-> reason]

\* Mutant of Deduct: the days are credited.
Deduct_credit(balances, leave_type, num_days) ==
    [balances EXCEPT ![leave_type] = @ + num_days]

\* emp["balances"][leave_type] -= num_days
Deduct(balances, leave_type, num_days) ==
    [balances EXCEPT ![leave_type] = @ - num_days]

\* Mutant of Commit: the record is inserted at the front of the history.
Commit_prepend(emp, leave_type, start, end, num_days, reason) ==
    [balances |-> Deduct(emp.balances, leave_type, num_days),
     history |-> <<leave_record(leave_type, start, end, num_days, reason)>>
                    \o emp.history]

\* Lines 64-76 on the ledger emp.
Commit(emp, leave_type, start, end, num_days, reason) ==
    [balances |-> Deduct(emp.balances, leave_type, num_days),
     history |-> Append(emp.history,
                        leave_record(leave_type, start, end, num_days, reason))]

\* Mutant of Validate: the dates are parsed before the leave type is checked.
Validate_dates_first(emp, leave_type, start, end) ==
    IF IsValueError(fromisoformat(start)) \/ IsValueError(fromisoformat(end))
    THEN "invalid_date_format"
    ELSE IF leave_type \notin DOMAIN emp.balances THEN "invalid_leave_type"
    ELSE LET start_date == fromisoformat(start)
             end_date == fromisoformat(end)
         IN IF Hours(end_date) < Hours(start_date) THEN "end_before_start"
            ELSE IF NumDays(start_date, end_date) > emp.balances[leave_type]
            THEN "insufficient_balance"
            ELSE IF dates_overlap(taken_dates(emp.history),
                                  daterange(start_date, end_date))
            THEN "overlap"
            ELSE "approved"

\* Mutant of Validate: the overlap check comes before the balance check.
Validate_overlap_first(emp, leave_type, start, end) ==
    IF leave_type \notin DOMAIN emp.balances THEN "invalid_leave_type"
    ELSE IF IsValueError(fromisoformat(start)) \/ IsValueError(fromisoformat(end))
    THEN "invalid_date_format"
    ELSE LET start_date == fromisoformat(start)
             end_date == fromisoformat(end)
         IN IF Hours(end_date) < Hours(start_date) THEN "end_before_start"
            ELSE IF dates_overlap(taken_dates(emp.history),
                                  daterange(start_date, end_date))
            THEN "overlap"
            ELSE IF NumDays(start_date, end_date) > emp.balances[leave_type]
            THEN "insufficient_balance"
            ELSE "approved"

\* The outcome of lines 31-62 for the ledger emp: the first check that fails,
\* or "approved".
\* Mutant of Validate: the balance check lets a request exceed the balance by
\* one day.
Validate_balance_off_by_one(emp, leave_type, start, end) ==
    IF leave_type \notin DOMAIN emp.balances THEN "invalid_leave_type"
    ELSE IF IsValueError(fromisoformat(start)) \/ IsValueError(fromisoformat(end))
    THEN "invalid_date_format"
    ELSE LET start_date == fromisoformat(start)
             end_date == fromisoformat(end)
         IN IF Hours(end_date) < Hours(start_date) THEN "end_before_start"
            ELSE IF NumDays(start_date, end_date) > emp.balances[leave_type] + 1
            THEN "insufficient_balance"
            ELSE IF dates_overlap(taken_dates(emp.history),
                                  daterange(start_date, end_date))
            THEN "overlap"
            ELSE "approved"

Validate(emp, leave_type, start, end) ==
    IF leave_type \notin DOMAIN emp.balances THEN "invalid_leave_type"
    ELSE IF IsValueError(fromisoformat(start)) \/ IsValueError(fromisoformat(end))
    THEN "invalid_date_format"
    ELSE LET start_date == fromisoformat(start)
             end_date == fromisoformat(end)
         IN IF Hours(end_date) < Hours(start_date) THEN "end_before_start"
            ELSE IF NumDays(start_date, end_date) > emp.balances[leave_type]
            THEN "insufficient_balance"
            ELSE IF dates_overlap(taken_dates(emp.history),
                                  daterange(start_date, end_date))
            THEN "overlap"
            ELSE "approved"

\* The outcome apply_leave returns in the current state.
ApplyOutcome(employee, leave_type, start, end) ==
    IF ~Registered(employee) THEN "not_found"
    ELSE Validate(Ledger(employee), leave_type, start, end)

\* Mutant of apply_leave: the balance is deducted before the overlap check.
apply_leave_deduct_first(employee, leave_type, start, end, reason) ==
    LET outcome == ApplyOutcome(employee, leave_type, start, end) IN
    /\ IF outcome \in {"approved", "overlap"}
       THEN LET emp == Ledger(employee)
                num_days == NumDays(fromisoformat(start), fromisoformat(end))
            IN /\ TotalRecords < MaxRecords
               /\ heap' = [heap EXCEPT ![employee][employees[employee]] =
                     IF outcome = "approved"
                     THEN Commit(emp, leave_type, start, end, num_days, reason)
                     ELSE [emp EXCEPT !.balances =
                             Deduct(emp.balances, leave_type, num_days)]]
       ELSE heap' = heap
    /\ employees' = employees
    /\ Return("apply_leave", outcome)
    /\ UNCHANGED th

\* Mutant of apply_leave: the balances are one dictionary shared by all
\* ledgers, so the deduction shows in every registered employee.
apply_leave_shared_balances(employee, leave_type, start, end, reason) ==
    LET outcome == ApplyOutcome(employee, leave_type, start, end) IN
    /\ IF outcome = "approved"
       THEN LET emp == Ledger(employee)
                num_days == NumDays(fromisoformat(start), fromisoformat(end))
            IN /\ TotalRecords < MaxRecords
               /\ heap' = [n \in Names |->
                     IF n = employee
                     THEN [heap[n] EXCEPT ![employees[n]] =
                             Commit(emp, leave_type, start, end, num_days, reason)]
                     ELSE IF Registered(n)
                     THEN [heap[n] EXCEPT ![employees[n]].balances =
                             Deduct(@, leave_type, num_days)]
                     ELSE heap[n]]
       ELSE heap' = heap
    /\ employees' = employees
    /\ Return("apply_leave", outcome)
    /\ UNCHANGED th

apply_leave(employee, leave_type, start, end, reason) ==
    LET outcome == ApplyOutcome(employee, leave_type, start, end) IN
    /\ IF outcome = "approved"
       THEN LET emp == Ledger(employee)
                num_days == NumDays(fromisoformat(start), fromisoformat(end))
            IN /\ TotalRecords < MaxRecords
               /\ heap' = [heap EXCEPT ![employee][employees[employee]] =
                              Commit(emp, leave_type, start, end, num_days, reason)]
       ELSE heap' = heap
    /\ employees' = employees
    /\ Return("apply_leave", outcome)
    /\ UNCHANGED th

(***************************************************************************)
(* get_leave_balance, get_leave_history, register_employee                 *)
(***************************************************************************)
\* Mutant of get_leave_balance: the lookup inserts a ledger for an unknown
\* name (employees.setdefault in place of employees.get).
get_leave_balance_creates(employee) ==
    /\ IF Registered(employee)
       THEN UNCHANGED <<employees, heap>>
       ELSE /\ heap' = [heap EXCEPT ![employee] = Append(@, NewLedger)]
            /\ employees' = [employees EXCEPT ![employee] = Len(heap[employee]) + 1]
    /\ UNCHANGED th
    /\ Return("get_leave_balance",
              IF ~Registered(employee) THEN "not_found" ELSE "ok")

get_leave_balance(employee) ==
    /\ UNCHANGED <<employees, heap, th>>
    /\ Return("get_leave_balance",
              IF ~Registered(employee) THEN "not_found" ELSE "ok")

\* Mutant of get_leave_history: the lookup inserts a ledger for an unknown
\* name (employees.setdefault in place of employees.get).
get_leave_history_creates(employee) ==
    /\ IF Registered(employee)
       THEN UNCHANGED <<employees, heap>>
       ELSE /\ heap' = [heap EXCEPT ![employee] = Append(@, NewLedger)]
            /\ employees' = [employees EXCEPT ![employee] = Len(heap[employee]) + 1]
    /\ UNCHANGED th
    /\ Return("get_leave_history",
              IF ~Registered(employee) THEN "not_found" ELSE "ok")

get_leave_history(employee) ==
    /\ UNCHANGED <<employees, heap, th>>
    /\ Return("get_leave_history",
              IF ~Registered(employee) THEN "not_found" ELSE "ok")

\* Mutant of register_employee: no membership test before the insert.
register_employee_overwrite(name) ==
    /\ heap' = [heap EXCEPT ![name] = Append(@, NewLedger)]
    /\ employees' = [employees EXCEPT ![name] = Len(heap[name]) + 1]
    /\ Return("register_employee",
              IF Registered(name) THEN "already_registered" ELSE "registered")
    /\ UNCHANGED th

register_employee(name) ==
    IF Registered(name)
    THEN /\ UNCHANGED <<employees, heap, th>>
         /\ Return("register_employee", "already_registered")
    ELSE /\ heap' = [heap EXCEPT ![name] = Append(@, NewLedger)]
         /\ employees' = [employees EXCEPT ![name] = Len(heap[name]) + 1]
         /\ Return("register_employee", "registered")
         /\ UNCHANGED th

ApplyLeave ==
    \E employee \in Names, leave_type \in LeaveTypes,
       start \in DateStrings, end \in DateStrings, reason \in Reasons :
        apply_leave(employee, leave_type, start, end, reason) /\ UNCHANGED held

GetLeaveBalance ==
    \E employee \in Names : get_leave_balance(employee) /\ UNCHANGED held

\* The caller drops the returned list.
GetLeaveHistory ==
    \E employee \in Names : get_leave_history(employee) /\ UNCHANGED held

RegisterEmployee ==
    \E name \in Names : register_employee(name) /\ UNCHANGED held

Next == ApplyLeave \/ GetLeaveBalance \/ GetLeaveHistory \/ RegisterEmployee

Spec == Init /\ [][Next]_vars

(***************************************************************************)
(* SpecView: get_leave_history returns emp["history"] itself (line 92), so  *)
(* the caller holds the list object of the ledger.                          *)
(***************************************************************************)
\* The list object get_leave_history(employee) returns: the history of the
\* ledger heap[employee][employees[employee]], or no list (the error payload).
ReturnedHistory(employee) ==
    IF Registered(employee) THEN <<employee, employees[employee]>> ELSE <<>>

\* The caller keeps the returned list.
ViewHistory ==
    \E employee \in ConcNames :
        get_leave_history(employee) /\ held' = ReturnedHistory(employee)

ViewApplyLeave ==
    \E employee \in ConcNames, leave_type \in ConcLeaveTypes,
       start \in ConcDateStrings, end \in ConcDateStrings, reason \in Reasons :
        apply_leave(employee, leave_type, start, end, reason) /\ UNCHANGED held

ViewRegister ==
    \E name \in ConcNames : register_employee(name) /\ UNCHANGED held

\* A record no apply_leave call wrote.
ForgedRecord ==
    [type |-> "sick", start |-> "2024-01-02", end |-> "2024-01-02",
     days |-> 1, reason |-> "forged"]

\* The caller appends to the list it holds.
caller_append ==
    /\ held # <<>>
    /\ TotalRecords < MaxRecords
    /\ heap' = [heap EXCEPT ![held[1]][held[2]].history = Append(@, ForgedRecord)]
    /\ last' = [op |-> "caller", outcome |-> "append"]
    /\ UNCHANGED <<employees, th, held>>

\* The caller removes the last element of the list it holds.
caller_pop ==
    /\ held # <<>>
    /\ heap[held[1]][held[2]].history # <<>>
    /\ heap' = [heap EXCEPT ![held[1]][held[2]].history = SubSeq(@, 1, Len(@) - 1)]
    /\ last' = [op |-> "caller", outcome |-> "pop"]
    /\ UNCHANGED <<employees, th, held>>

CallerMutates == caller_append \/ caller_pop

NextView == ViewApplyLeave \/ ViewHistory \/ ViewRegister \/ CallerMutates

SpecView == Init /\ [][NextView]_vars

(***************************************************************************)
(* SpecConc: the handlers on threads.  No handler takes a lock, so a thread *)
(* switch can fall between any two statements; the steps are the statements *)
(* that read or write employees or a ledger, with the local computation     *)
(* that follows them.                                                       *)
(***************************************************************************)
\* The thread returns: its locals are dropped and the outcome is recorded.
Returned(t, op, employee, outcome, seen) ==
    [pc |-> "idle", calls |-> th[t].calls, args |-> NoArgs, emp |-> 0, bal |-> 0,
     ret |-> [op |-> op, employee |-> employee, outcome |-> outcome, seen |-> seen]]

Idle(t) == th[t].pc = "idle" /\ th[t].calls < MaxCalls

\* The outcome of lines 31-45, which read only the arguments and the keys of
\* emp["balances"]: the first check that fails, or "continue".
ValidateArgs(leave_type, start, end) ==
    IF leave_type \notin DOMAIN DefaultBalances THEN "invalid_leave_type"
    ELSE IF IsValueError(fromisoformat(start)) \/ IsValueError(fromisoformat(end))
    THEN "invalid_date_format"
    ELSE IF Hours(fromisoformat(end)) < Hours(fromisoformat(start))
    THEN "end_before_start"
    ELSE "continue"

\* register_employee line 96: the membership test.
register_employee_96(t, name) ==
    /\ Idle(t)
    /\ th' = [th EXCEPT ![t] =
          IF Registered(name)
          THEN [Returned(t, "register_employee", name, "already_registered", <<>>)
                  EXCEPT !.calls = @ + 1]
          ELSE [@ EXCEPT !.pc = "98", !.calls = @ + 1, !.args.employee = name]]
    /\ UNCHANGED <<employees, heap, last, held>>

\* register_employee lines 98-102: the insert.
register_employee_98(t) ==
    /\ th[t].pc = "98"
    /\ LET name == th[t].args.employee IN
        /\ heap' = [heap EXCEPT ![name] = Append(@, NewLedger)]
        /\ employees' = [employees EXCEPT ![name] = Len(heap[name]) + 1]
        /\ th' = [th EXCEPT ![t] =
              Returned(t, "register_employee", name, "registered", <<>>)]
    /\ UNCHANGED <<last, held>>

\* apply_leave lines 27-45: the lookup, and the checks of the arguments.
apply_leave_27(t, employee, leave_type, start, end) ==
    /\ Idle(t)
    /\ th' = [th EXCEPT ![t] =
          IF ~Registered(employee)
          THEN [Returned(t, "apply_leave", employee, "not_found", <<>>)
                  EXCEPT !.calls = @ + 1]
          ELSE IF ValidateArgs(leave_type, start, end) # "continue"
          THEN [Returned(t, "apply_leave", employee,
                         ValidateArgs(leave_type, start, end), <<>>)
                  EXCEPT !.calls = @ + 1]
          ELSE [@ EXCEPT !.pc = "47", !.calls = @ + 1, !.emp = employees[employee],
                         !.args = [employee |-> employee, leave_type |-> leave_type,
                                   start |-> start, end |-> end]]]
    /\ UNCHANGED <<employees, heap, last, held>>

\* The ledger object the local emp of thread t refers to.
Emp(t) == heap[th[t].args.employee][th[t].emp]

ThreadNumDays(t) ==
    NumDays(fromisoformat(th[t].args.start), fromisoformat(th[t].args.end))

\* apply_leave lines 47-48: the balance check.
apply_leave_47(t) ==
    /\ th[t].pc = "47"
    /\ th' = [th EXCEPT ![t] =
          IF ThreadNumDays(t) > Emp(t).balances[th[t].args.leave_type]
          THEN Returned(t, "apply_leave", th[t].args.employee,
                        "insufficient_balance", <<>>)
          ELSE [@ EXCEPT !.pc = "51"]]
    /\ UNCHANGED <<employees, heap, last, held>>

\* apply_leave lines 51-62: the overlap check.
apply_leave_51(t) ==
    /\ th[t].pc = "51"
    /\ th' = [th EXCEPT ![t] =
          IF dates_overlap(taken_dates(Emp(t).history),
                           daterange(fromisoformat(th[t].args.start),
                                     fromisoformat(th[t].args.end)))
          THEN Returned(t, "apply_leave", th[t].args.employee, "overlap", <<>>)
          ELSE [@ EXCEPT !.pc = "65"]]
    /\ UNCHANGED <<employees, heap, last, held>>

\* apply_leave line 65, first half: the -= loads emp["balances"][leave_type].
apply_leave_65_load(t) ==
    /\ th[t].pc = "65"
    /\ th' = [th EXCEPT ![t] =
          [@ EXCEPT !.pc = "65s", !.bal = Emp(t).balances[th[t].args.leave_type]]]
    /\ UNCHANGED <<employees, heap, last, held>>

\* apply_leave line 65, second half: the -= stores the difference.
apply_leave_65_store(t) ==
    /\ th[t].pc = "65s"
    /\ heap' = [heap EXCEPT ![th[t].args.employee][th[t].emp].balances
                               [th[t].args.leave_type] = th[t].bal - ThreadNumDays(t)]
    /\ th' = [th EXCEPT ![t] = [@ EXCEPT !.pc = "76", !.bal = 0]]
    /\ UNCHANGED <<employees, last, held>>

\* apply_leave lines 68-78: the append and the return.  The calls of SpecConc
\* leave reason at its default, "".
apply_leave_76(t) ==
    /\ th[t].pc = "76"
    /\ heap' = [heap EXCEPT ![th[t].args.employee][th[t].emp].history =
          Append(@, leave_record(th[t].args.leave_type, th[t].args.start,
                                 th[t].args.end, ThreadNumDays(t), ""))]
    /\ th' = [th EXCEPT ![t] =
          Returned(t, "apply_leave", th[t].args.employee, "approved", <<>>)]
    /\ UNCHANGED <<employees, last, held>>

\* get_leave_balance / get_leave_history, lines 82-85 and 89-92.  seen is the
\* ledger the call finds; the handler returns one half of it.
get_leave(t, op, employee) ==
    /\ Idle(t)
    /\ th' = [th EXCEPT ![t] =
          [(IF ~Registered(employee)
            THEN Returned(t, op, employee, "not_found", <<>>)
            ELSE Returned(t, op, employee, "ok", <<Ledger(employee)>>))
           EXCEPT !.calls = @ + 1]]
    /\ UNCHANGED <<employees, heap, last, held>>

ConcRegister ==
    \E t \in Threads :
        \/ \E name \in ConcNames : register_employee_96(t, name)
        \/ register_employee_98(t)

ConcApplyCheck ==
    \E t \in Threads :
        \/ \E employee \in ConcNames, leave_type \in ConcLeaveTypes,
              start \in ConcDateStrings, end \in ConcDateStrings :
               apply_leave_27(t, employee, leave_type, start, end)
        \/ apply_leave_47(t)
        \/ apply_leave_51(t)

ConcApplyCommit ==
    \E t \in Threads :
        \/ apply_leave_65_load(t)
        \/ apply_leave_65_store(t)
        \/ apply_leave_76(t)

ConcRead ==
    \E t \in Threads, employee \in ConcNames :
        \/ get_leave(t, "get_leave_balance", employee)
        \/ get_leave(t, "get_leave_history", employee)

NextConc == ConcRegister \/ ConcApplyCheck \/ ConcApplyCommit \/ ConcRead

SpecConc == Init /\ [][NextConc]_vars

(***************************************************************************)
(* Properties                                                              *)
(***************************************************************************)
\* employees[name] after the step
LedgerNext(name) == heap'[name][employees'[name]]

\* The strings of DateStrings of the form YYYY-MM-DD.
PlainDates == {"2024-01-01", "2024-01-02"}

\* The calendar days from the day of start to the day of end, inclusive.
CalendarDays(start, end) == fromisoformat(start).day .. fromisoformat(end).day

\* The calendar days the records of a history cover.
BookedDays(history) ==
    UNION { CalendarDays(history[i].start, history[i].end) : i \in 1 .. Len(history) }

\* The whole days elapsed from start_date to end_date (end_date not earlier).
WholeDays(start_date, end_date) ==
    CHOOSE k \in 0 .. 31 :
        /\ 24 * k <= Hours(end_date) - Hours(start_date)
        /\ Hours(end_date) - Hours(start_date) < 24 * (k + 1)

Rejections ==
    {"not_found", "invalid_leave_type", "invalid_date_format",
     "end_before_start", "insufficient_balance", "overlap"}

\* No two distinct records of a history cover a common calendar day.
Disjoint(history) ==
    \A i, j \in 1 .. Len(history) :
        i # j => CalendarDays(history[i].start, history[i].end)
                   \cap CalendarDays(history[j].start, history[j].end) = {}

\* C1. No double booking: in every reachable state, for every employee, the
\* calendar days (start to end inclusive) of any two distinct records of the
\* history are disjoint.
C1_NoDoubleBooking ==
    \A n \in Names : Registered(n) => Disjoint(Ledger(n).history)

BalancesNonNegative ==
    \A n \in Names : Registered(n) =>
        \A c \in Categories : Ledger(n).balances[c] \in Nat

BalanceStep ==
    \A n \in Names, c \in Categories :
        (Registered(n) /\ employees'[n] # 0) =>
            /\ LedgerNext(n).balances[c] <= Ledger(n).balances[c]
            /\ LedgerNext(n).balances[c] < Ledger(n).balances[c] =>
                  /\ last' = [op |-> "apply_leave", outcome |-> "approved"]
                  /\ Len(LedgerNext(n).history) = Len(Ledger(n).history) + 1
                  /\ LedgerNext(n).history[Len(LedgerNext(n).history)].type = c

\* C2. Balance monotonicity: every balance of a registered employee is a
\* non-negative integer in every reachable state; no step increases a
\* balance, and a step that decreases the balance of a category is an
\* approved apply_leave for that employee and category.
C2_BalanceMonotonic == []BalancesNonNegative /\ [][BalanceStep]_vars

\* An approved apply_leave has used up a category.
C2_Witness ==
    /\ last = [op |-> "apply_leave", outcome |-> "approved"]
    /\ \E n \in Names : Registered(n) /\ Ledger(n).balances["floater"] = 0

\* C3. Atomicity on rejection: a step of apply_leave that returns a
\* rejection leaves the directory and every ledger as they were.
C3_RejectionChangesNothing ==
    [][(last'.op = "apply_leave" /\ last'.outcome \in Rejections)
         => (employees' = employees /\ heap' = heap)]_vars

\* apply_leave has rejected a request that overlaps an approved record.
C3_Witness ==
    /\ last = [op |-> "apply_leave", outcome |-> "overlap"]
    /\ \E n \in Names : Registered(n) /\ Len(Ledger(n).history) > 0

\* C4. Round trip: an approved apply_leave appends exactly one record with
\* the given type, start, end and reason and the day count (end - start) in
\* whole days + 1, decreases the balance of leave_type by that day count and
\* leaves the balances of the other categories as they were.
C4_RoundTrip ==
    [][last' = [op |-> "apply_leave", outcome |-> "approved"] =>
       \A employee \in Names, leave_type \in LeaveTypes,
          start \in DateStrings, end \in DateStrings, reason \in Reasons :
            apply_leave(employee, leave_type, start, end, reason)
            => LET days == WholeDays(fromisoformat(start), fromisoformat(end)) + 1
                   before == Ledger(employee)
                   after == LedgerNext(employee)
               IN /\ after.history =
                        Append(before.history,
                               [type |-> leave_type, start |-> start, end |-> end,
                                days |-> days, reason |-> reason])
                  /\ after.balances[leave_type] = before.balances[leave_type] - days
                  /\ \A c \in Categories \ {leave_type} :
                        after.balances[c] = before.balances[c]]_vars

\* An approved request of two days has been recorded and debited.
C4_Witness ==
    /\ last = [op |-> "apply_leave", outcome |-> "approved"]
    /\ \E n \in Names :
          /\ Registered(n)
          /\ Len(Ledger(n).history) = 1
          /\ Ledger(n).history[1].days = 2
          /\ Ledger(n).balances[Ledger(n).history[1].type]
                = DefaultBalances[Ledger(n).history[1].type] - 2

\* The conditions under which C5 says a request is approved.
ConstraintsPass(employee, leave_type, start, end) ==
    /\ Registered(employee)
    /\ leave_type \in Categories
    /\ ~IsValueError(fromisoformat(start))
    /\ ~IsValueError(fromisoformat(end))
    /\ Hours(fromisoformat(end)) >= Hours(fromisoformat(start))
    /\ WholeDays(fromisoformat(start), fromisoformat(end)) + 1
          <= Ledger(employee).balances[leave_type]
    /\ CalendarDays(start, end) \cap BookedDays(Ledger(employee).history) = {}

\* C5. Auto-approval is complete and sound: apply_leave approves a request
\* if and only if the employee is registered, leave_type is a category, both
\* dates parse, end is not before start, the day count does not exceed the
\* balance and no requested day is covered by an existing record.
C5_ApprovedIffConstraintsPass ==
    [][\A employee \in Names, leave_type \in LeaveTypes,
          start \in DateStrings, end \in DateStrings, reason \in Reasons :
            apply_leave(employee, leave_type, start, end, reason)
            => (last'.outcome = "approved"
                  <=> ConstraintsPass(employee, leave_type, start, end))]_vars

\* C6. Idempotent registration: register_employee of an unregistered name
\* creates a ledger with balances casual 8, floater 2, sick 30 and an empty
\* history; register_employee of a registered name returns the
\* already-registered outcome and changes no ledger; in both cases the other
\* employees are left as they were.
C6_IdempotentRegistration ==
    [][\A name \in Names :
         register_employee(name) =>
            /\ \A other \in Names \ {name} :
                  employees'[other] = employees[other] /\ heap'[other] = heap[other]
            /\ IF Registered(name)
               THEN /\ last'.outcome = "already_registered"
                    /\ employees'[name] = employees[name]
                    /\ LedgerNext(name) = Ledger(name)
               ELSE /\ last'.outcome = "registered"
                    /\ employees'[name] # 0
                    /\ LedgerNext(name).balances =
                          [c \in {"casual", "floater", "sick"} |->
                             IF c = "casual" THEN 8 ELSE IF c = "floater" THEN 2 ELSE 30]
                    /\ LedgerNext(name).history = <<>>]_vars

\* A second registration has been answered while every employee holds
\* approved leave.
C6_Witness ==
    /\ last = [op |-> "register_employee", outcome |-> "already_registered"]
    /\ \A n \in Names : Registered(n) /\ Len(Ledger(n).history) > 0

\* C7. Date-format validation: for a registered employee and a valid
\* category, apply_leave rejects with the invalid-date-format outcome, and
\* without a state change, every start or end that is not a plain date
\* YYYY-MM-DD.
C7_OnlyPlainDatesAccepted ==
    [][\A employee \in Names, leave_type \in Categories,
          start \in DateStrings, end \in DateStrings, reason \in Reasons :
            (/\ apply_leave(employee, leave_type, start, end, reason)
             /\ Registered(employee)
             /\ (start \notin PlainDates \/ end \notin PlainDates))
            => (/\ last'.outcome = "invalid_date_format"
                /\ employees' = employees
                /\ heap' = heap)]_vars

ReturnedRegistered(t, name) ==
    /\ th[t].ret.op = "register_employee"
    /\ th[t].ret.employee = name
    /\ th[t].ret.outcome = "registered"

\* C8. Concurrent registration: of the register_employee calls for one
\* identifier that interleave, no two return the registered outcome, and a
\* ledger once inserted is not replaced.
C8_OneRegistrationWins ==
    /\ [](\A n \in Names : \A t1, t2 \in Threads :
            (t1 # t2 /\ ReturnedRegistered(t1, n)) => ~ReturnedRegistered(t2, n))
    /\ [][\A n \in Names : Registered(n) => employees'[n] = employees[n]]_vars

\* C9. Concurrent apply_leave on one employee serializes: in no ledger do
\* two approved records share a calendar day, and no balance is below zero.
C9_ApplySerializes ==
    \A n \in Names : \A i \in 1 .. Len(heap[n]) :
        /\ Disjoint(heap[n][i].history)
        /\ \A c \in Categories : heap[n][i].balances[c] >= 0

\* The days of the records of category c in a history.
RECURSIVE DaysOfType(_, _)
DaysOfType(history, c) ==
    IF history = <<>> THEN 0
    ELSE (IF Head(history).type = c THEN Head(history).days ELSE 0)
           + DaysOfType(Tail(history), c)

\* Every debit of the ledger has its record and every record its debit.
Consistent(ledger) ==
    \A c \in Categories :
        ledger.balances[c] + DaysOfType(ledger.history, c) = DefaultBalances[c]

\* C10. Consistent reads: the ledger a get_leave_balance or get_leave_history
\* call finds is never one whose balance has been debited without the record
\* being present, or the reverse.
C10_ReadsAreConsistent ==
    \A t \in Threads :
        (th[t].ret.op \in {"get_leave_balance", "get_leave_history"}
           /\ th[t].ret.outcome = "ok")
        => Consistent(th[t].ret.seen[1])

\* C11. Read-only history view: a step in which the caller changes the value
\* get_leave_history returned changes no stored history, so the histories
\* hold exactly the records apply_leave committed.
C11_ReturnedHistoryIsReadOnly ==
    [][last'.op = "caller" => heap' = heap]_vars

\* apply_leave answers not-found for every unregistered identifier.
UnknownIsNotFound ==
    \A employee \in Names : ~Registered(employee) =>
        \A leave_type \in LeaveTypes, start \in DateStrings, end \in DateStrings :
            ApplyOutcome(employee, leave_type, start, end) = "not_found"

\* A step that answers not-found changes nothing, and the two reads answer
\* not-found for every unregistered identifier.
UnknownStep ==
    /\ last'.outcome = "not_found" => (employees' = employees /\ heap' = heap)
    /\ \A employee \in Names :
          (~Registered(employee)
             /\ (get_leave_balance(employee) \/ get_leave_history(employee)))
          => (last'.outcome = "not_found" /\ ~Registered(employee)')

\* C12. Unknown employee handling: for an unregistered identifier,
\* apply_leave, get_leave_balance and get_leave_history return a not-found
\* outcome, and none of them creates a ledger or a directory entry or
\* changes any other state.
C12_UnknownEmployee == []UnknownIsNotFound /\ [][UnknownStep]_vars

\* apply_leave has answered not-found while one employee is unregistered and
\* another holds approved leave.
C12_Witness ==
    /\ last = [op |-> "apply_leave", outcome |-> "not_found"]
    /\ \E n \in Names : ~Registered(n)
    /\ \E n \in Names : Registered(n) /\ Len(Ledger(n).history) > 0

\* The string is no ISO date or datetime.
Malformed(s) == IsValueError(fromisoformat(s))

\* C13 as stated. Order of apply_leave request validation: the dates are
\* parsed first, so a step of apply_leave on a request with a malformed date
\* string returns invalid date format, also when the employee is unregistered
\* or the leave type is unknown.
C13_DatesParsedFirst ==
    [][last'.op = "apply_leave" =>
       \A employee \in Names, leave_type \in LeaveTypes,
          start \in DateStrings, end \in DateStrings, reason \in Reasons :
            (/\ Malformed(start) \/ Malformed(end)
             /\ apply_leave(employee, leave_type, start, end, reason))
            => last'.outcome = "invalid_date_format"]_vars

\* C13 as amended. The employee is looked up first, then the leave type is
\* validated, then the dates are parsed, and the first failing check
\* determines the outcome: apply_leave answers not-found exactly for an
\* unregistered employee, invalid leave type for a registered employee and an
\* unknown type whatever the dates, and invalid date format for a malformed
\* date only when the employee is registered and the type is a category.
C13_LookupThenTypeThenDates ==
    \A employee \in Names, leave_type \in LeaveTypes,
       start \in DateStrings, end \in DateStrings :
        LET outcome == ApplyOutcome(employee, leave_type, start, end) IN
        IF ~Registered(employee) THEN outcome = "not_found"
        ELSE IF leave_type \notin Categories THEN outcome = "invalid_leave_type"
        ELSE IF Malformed(start) \/ Malformed(end) THEN outcome = "invalid_date_format"
        ELSE outcome \notin {"not_found", "invalid_leave_type", "invalid_date_format"}

\* apply_leave has answered invalid leave type, in a state where a request
\* with a malformed date gets not-found for one employee and invalid leave
\* type for another.
C13_Witness ==
    /\ last = [op |-> "apply_leave", outcome |-> "invalid_leave_type"]
    /\ \E n \in Names :
          ApplyOutcome(n, "casual", "01/02/2024", "2024-01-01") = "not_found"
    /\ \E n \in Names :
          ApplyOutcome(n, "annual", "01/02/2024", "2024-01-01") = "invalid_leave_type"

\* The request exceeds the balance of its category.
Exceeds(employee, leave_type, start, end) ==
    WholeDays(fromisoformat(start), fromisoformat(end)) + 1
        > Ledger(employee).balances[leave_type]

\* C14. Order of ledger checks: for a registered employee and well-formed
\* dates apply_leave reports unknown category, then end before start, then
\* insufficient balance, and only then overlap or approval; a request that
\* both exceeds the balance and overlaps an existing record is rejected as
\* insufficient balance.
C14_LedgerCheckOrder ==
    \A employee \in Names, leave_type \in LeaveTypes,
       start \in DateStrings, end \in DateStrings :
        (Registered(employee) /\ ~Malformed(start) /\ ~Malformed(end)) =>
            LET outcome == ApplyOutcome(employee, leave_type, start, end) IN
            IF leave_type \notin Categories THEN outcome = "invalid_leave_type"
            ELSE IF Hours(fromisoformat(end)) < Hours(fromisoformat(start))
            THEN outcome = "end_before_start"
            ELSE IF Exceeds(employee, leave_type, start, end)
            THEN outcome = "insufficient_balance"
            ELSE outcome \in {"overlap", "approved"}

\* apply_leave has answered insufficient balance where a request both exceeds
\* the floater balance and overlaps an approved record.
C14_Witness ==
    /\ last = [op |-> "apply_leave", outcome |-> "insufficient_balance"]
    /\ \E n \in Names, start \in PlainDates, end \in PlainDates :
          /\ Registered(n)
          /\ Hours(fromisoformat(end)) >= Hours(fromisoformat(start))
          /\ Exceeds(n, "floater", start, end)
          /\ CalendarDays(start, end) \cap BookedDays(Ledger(n).history) # {}
          /\ ApplyOutcome(n, "floater", start, end) = "insufficient_balance"

\* s is a prefix of t.
IsPrefix(s, t) == Len(s) <= Len(t) /\ SubSeq(t, 1, Len(s)) = s

\* C15. Append-only history: in every step each employee's history is a
\* prefix of its history after the step (no record is removed, reordered or
\* modified), and an approved apply_leave adds exactly one record, at the end.
C15_AppendOnlyHistory ==
    [][\A n \in Names : Registered(n) =>
         /\ employees'[n] # 0
         /\ IsPrefix(Ledger(n).history, LedgerNext(n).history)
         /\ Len(LedgerNext(n).history) <= Len(Ledger(n).history) + 1
         /\ Len(LedgerNext(n).history) > Len(Ledger(n).history)
               => last' = [op |-> "apply_leave", outcome |-> "approved"]]_vars

\* A second record has been approved after a first one.
C15_Witness ==
    /\ last = [op |-> "apply_leave", outcome |-> "approved"]
    /\ \E n \in Names : Registered(n) /\ Len(Ledger(n).history) = 2

\* C16. Directory grows only: no step removes a registered identifier; a
\* step that adds one is a register_employee that returns registered; an
\* identifier once registered keeps its ledger object, which is never reset
\* to the default balances or to an empty history.
C16_DirectoryGrowsOnly ==
    [][/\ \A n \in Names : Registered(n) =>
            /\ employees'[n] = employees[n]
            /\ heap'[n] = heap[n] \/ LedgerNext(n) # NewLedger
       /\ (\E n \in Names : ~Registered(n) /\ employees'[n] # 0)
            => last' = [op |-> "register_employee", outcome |-> "registered"]]_vars

\* Both identifiers are registered, and one has been registered again after
\* leave was approved for it.
C16_Witness ==
    /\ last = [op |-> "register_employee", outcome |-> "already_registered"]
    /\ \A n \in Names : Registered(n)
    /\ \E n \in Names : Len(Ledger(n).history) > 0

\* The employees whose directory entry or ledgers the step changes.
Changed ==
    {n \in Names : employees'[n] # employees[n] \/ heap'[n] # heap[n]}

\* The ledgers of the employees other than name are as they were.
OthersUnchanged(name) ==
    \A other \in Names \ {name} :
        employees'[other] = employees[other] /\ heap'[other] = heap[other]

\* C17. Ledger isolation: every get_leave_balance, get_leave_history and
\* register_employee call leaves the balances and the history of every
\* employee other than the one it names as they were; a rejected apply_leave
\* changes no ledger, and an approved one changes the ledger of exactly one
\* employee, the one that gains the record.
C17_LedgerIsolation ==
    [][/\ last'.op \in {"get_leave_balance", "get_leave_history",
                       "register_employee"} =>
            \A name \in Names :
               (get_leave_balance(name) \/ get_leave_history(name)
                  \/ register_employee(name)) => OthersUnchanged(name)
       /\ (last'.op = "apply_leave" /\ last'.outcome # "approved")
            => (employees' = employees /\ heap' = heap)
       /\ last' = [op |-> "apply_leave", outcome |-> "approved"] =>
            \E employee \in Names :
               /\ Changed = {employee}
               /\ Len(LedgerNext(employee).history)
                    = Len(Ledger(employee).history) + 1]_vars

\* Leave has been approved for one employee while another registered
\* employee keeps the default ledger.
C17_Witness ==
    /\ last = [op |-> "apply_leave", outcome |-> "approved"]
    /\ \E n \in Names : Registered(n) /\ Len(Ledger(n).history) > 0
    /\ \E n \in Names : Registered(n) /\ Ledger(n) = NewLedger

\* C18. Conservation: in every state between two calls, for every registered
\* employee, the casual balance plus the days of the casual records is 8, the
\* floater balance plus the days of the floater records is 2, and the sick
\* balance plus the days of the sick records is 30.
C18_Conservation ==
    \A n \in Names : Registered(n) =>
        LET balances == Ledger(n).balances
            history == Ledger(n).history
        IN /\ balances["casual"] + DaysOfType(history, "casual") = 8
           /\ balances["floater"] + DaysOfType(history, "floater") = 2
           /\ balances["sick"] + DaysOfType(history, "sick") = 30

\* An employee holds records of two categories.
C18_Witness ==
    \E n \in Names :
        /\ Registered(n)
        /\ Len(Ledger(n).history) = 2
        /\ Ledger(n).history[1].type # Ledger(n).history[2].type

\* The sum of the balances of a ledger.
SumBalances(balances) ==
    balances["casual"] + balances["floater"] + balances["sick"]

\* C19. Bounded approvals: every record debits at least 1 day; the number of
\* records of an employee plus the days left in its balances never exceeds
\* 8 + 2 + 30 = 40, so a history never holds more than 40 records; and while
\* the balance of a category is 0 no apply_leave of that employee and category
\* is approved.
C19_BoundedApprovals ==
    \A n \in Names : Registered(n) =>
        LET balances == Ledger(n).balances
            history == Ledger(n).history
        IN /\ \A i \in 1 .. Len(history) : history[i].days >= 1
           /\ \A c \in Categories : balances[c] >= 0
           /\ Len(history) + SumBalances(balances) <= 40
           /\ Len(history) <= 40
           /\ \A c \in Categories : balances[c] = 0 =>
                 \A start \in DateStrings, end \in DateStrings :
                     ApplyOutcome(n, c, start, end) \in Rejections

\* A request has been rejected for an employee whose floater balance is used
\* up.
C19_Witness ==
    /\ last = [op |-> "apply_leave", outcome |-> "insufficient_balance"]
    /\ \E n \in Names : Registered(n) /\ Ledger(n).balances["floater"] = 0

\* C20. Reads are pure: a step of get_leave_balance or get_leave_history,
\* for a registered or an unregistered identifier, changes neither the
\* directory nor any balance nor any history; every identifier is registered
\* after the read exactly if it was before, with the same ledger, so a later
\* call, whose outcome is computed from the directory and the ledgers alone,
\* returns what it would have returned without the read.
C20_ReadsArePure ==
    [][last'.op \in {"get_leave_balance", "get_leave_history"} =>
         /\ employees' = employees
         /\ heap' = heap
         /\ \A n \in Names :
               /\ (employees'[n] # 0) = Registered(n)
               /\ Registered(n) => LedgerNext(n) = Ledger(n)]_vars

\* A read of an unregistered identifier has returned while leave is recorded
\* for a registered one.
C20_Witness ==
    /\ last.op \in {"get_leave_balance", "get_leave_history"}
    /\ last.outcome = "not_found"
    /\ \E n \in Names : Registered(n) /\ Len(Ledger(n).history) > 0

====
